---------------------------- MODULE Spec2Model ----------------------------
(***************************************************************************)
(* A model of update_stocks.py: the retrying history fetch (safe_history), *)
(* the index-based return calculator (pct_change_from_n_days), the         *)
(* per-symbol row builder (fetch_one) and the batch loop (main).           *)
(*                                                                         *)
(* Numbers are exact rationals num/den; the IEEE rounding error of the     *)
(* float arithmetic is not modelled.  A cell of a price column is a        *)
(* number, NaN (a missing close), or a value float() rejects.  The         *)
(* DataAsOf timestamp of a row and the sleep between retries change no     *)
(* state that any step reads and are left out.                             *)
(***************************************************************************)
EXTENDS Integers, Sequences, FiniteSets, TLC

VARIABLES
    tickers,       \* main: the symbols read from TICKER_FILE
    market,        \* the provider: the history frame it holds for each symbol
    pos,           \* main: 1-based position of the for loop in tickers
    pc,            \* main/fetch_one/safe_history: where the run stands
    attempt,       \* safe_history: the retry counter
    hist,          \* fetch_one: the frame safe_history returned
    close_series,  \* fetch_one: the close prices used for the returns
    cur_price,     \* fetch_one: the resolved current price, or None
    rows,          \* main: the rows appended so far
    output,        \* the rows written to OUTPUT_CSV, <<>> before the write
    calls,         \* history: provider history calls made for the current symbol
    accepted,      \* history: TRUE when the last history attempt succeeded
    fallback,      \* history: outcome of the last-price lookup for the current symbol
    meta,          \* history: outcome of the metadata lookup for the current symbol
    raised,        \* history: where fetch_one raised for the current symbol, or "no"
    c_series,      \* calculator runs: the close_series argument
    c_n,           \* calculator runs: the n_days argument
    c_pc,          \* calculator runs: "call" before, "done" after the call
    c_result,      \* calculator runs: what pct_change_from_n_days returned
    c_field        \* calculator runs: the row field fetch_one makes of it

vars == <<tickers, market, pos, pc, attempt, hist, close_series, cur_price, rows,
          output, calls, accepted, fallback, meta, raised,
          c_series, c_n, c_pc, c_result, c_field>>

pipeVars == <<tickers, market, pos, pc, attempt, hist, close_series, cur_price,
              rows, output, calls, accepted, fallback, meta, raised>>

calcVars == <<c_series, c_n, c_pc, c_result, c_field>>

-----------------------------------------------------------------------------
(* Values *)

Num(v) == [k |-> "num", num |-> v, den |-> 1]

Frac(n, d) == [k |-> "num", num |-> n, den |-> d]

NaN == [k |-> "nan", num |-> 0, den |-> 1]

NonNumeric == [k |-> "bad", num |-> 0, den |-> 1]

None == [k |-> "none", num |-> 0, den |-> 1]

Inf == [k |-> "inf", num |-> 0, den |-> 1]

NA == [k |-> "NA", num |-> 0, den |-> 1]

Blank == [k |-> "blank", num |-> 0, den |-> 1]

IsNum(x) == x.k = "num"

Abs(x) == IF x < 0 THEN -x ELSE x

\* Two numbers denote the same value.
SameValue(x, y) == IsNum(x) /\ IsNum(y) /\ x.num * y.den = y.num * x.den

IsZero(x) == IsNum(x) /\ x.num = 0

\* n/d rounded to the nearest integer, a tie going to the even one.
RoundHalfEven(n, d) ==
    LET nn == IF d < 0 THEN -n ELSE n
        dd == Abs(d)
        q  == nn \div dd
        r  == nn - q * dd
    IN  IF 2 * r < dd THEN q
        ELSE IF 2 * r > dd THEN q + 1
        ELSE IF q % 2 = 0 THEN q ELSE q + 1

\* Python's round(x, ndigits) of a float: NaN stays NaN.
round(x, ndigits) ==
    IF IsNum(x)
    THEN Frac(RoundHalfEven(x.num * 10^ndigits, x.den), 10^ndigits)
    ELSE x

-----------------------------------------------------------------------------
(* Program constants *)

OFFSETS == [OneMonth |-> 21, ThreeMonth |-> 63, SixMonth |-> 126, OneYear |-> 252]

Windows == DOMAIN OFFSETS

RETRY_ATTEMPTS == 3

-----------------------------------------------------------------------------
(* The return calculator *)

\* A mistaken calculator: too little history falls back to the oldest close.
pct_change_oldest(series, n_days) ==
    IF Len(series) = 0 THEN None
    ELSE
        LET last_idx     == Len(series) - 1
            lb           == last_idx - n_days
            lookback_idx == IF lb < 0 THEN 0 ELSE lb
            last         == series[last_idx + 1]
            earlier      == series[lookback_idx + 1]
        IN  IF last.k = "bad" \/ earlier.k = "bad" THEN None
            ELSE IF IsZero(earlier) THEN None
            ELSE IF last.k = "nan" \/ earlier.k = "nan" THEN NaN
            ELSE Frac((last.num * earlier.den - earlier.num * last.den) * 100,
                      earlier.num * last.den)

\* A mistaken calculator: no float() conversion and no zero guard, so numpy's
\* division yields inf or nan for a zero divisor.
pct_change_unguarded(series, n_days) ==
    IF Len(series) = 0 THEN None
    ELSE
        LET last_idx     == Len(series) - 1
            lookback_idx == last_idx - n_days
        IN  IF lookback_idx < 0 THEN None
            ELSE
                LET last    == series[last_idx + 1]
                    earlier == series[lookback_idx + 1]
                IN  IF last.k = "bad" \/ earlier.k = "bad" THEN None
                    ELSE IF last.k = "nan" \/ earlier.k = "nan" THEN NaN
                    ELSE IF IsZero(earlier)
                    THEN (IF IsZero(last) THEN NaN ELSE Inf)
                    ELSE Frac((last.num * earlier.den - earlier.num * last.den) * 100,
                              earlier.num * last.den)

\* A mistaken calculator: the look-back index is off by one.
pct_change_off_by_one(series, n_days) ==
    IF Len(series) = 0 THEN None
    ELSE
        LET last_idx     == Len(series) - 1
            lookback_idx == last_idx - n_days + 1
        IN  IF lookback_idx < 0 \/ lookback_idx > last_idx THEN None
            ELSE
                LET last    == series[last_idx + 1]
                    earlier == series[lookback_idx + 1]
                IN  IF last.k = "bad" \/ earlier.k = "bad" THEN None
                    ELSE IF IsZero(earlier) THEN None
                    ELSE IF last.k = "nan" \/ earlier.k = "nan" THEN NaN
                    ELSE Frac((last.num * earlier.den - earlier.num * last.den) * 100,
                              earlier.num * last.den)

\* pct_change_from_n_days(close_series, n_days).  float() of a value it rejects
\* raises inside the try and gives None; float(NaN) is NaN, which is not equal
\* to 0 and flows through the arithmetic.
pct_change_from_n_days(series, n_days) ==
    IF Len(series) = 0 THEN None
    ELSE
        LET last_idx     == Len(series) - 1
            lookback_idx == last_idx - n_days
        IN  IF lookback_idx < 0 THEN None
            ELSE
                LET last    == series[last_idx + 1]
                    earlier == series[lookback_idx + 1]
                IN  IF last.k = "bad" \/ earlier.k = "bad" THEN None
                    ELSE IF IsZero(earlier) THEN None
                    ELSE IF last.k = "nan" \/ earlier.k = "nan" THEN NaN
                    ELSE Frac((last.num * earlier.den - earlier.num * last.den) * 100,
                              earlier.num * last.den)

\* A mistaken field: an unavailable return is written as 0.
PctField_zero(x) == IF x = None THEN Num(0) ELSE round(x, 2)

\* fetch_one's return fields: round(x, 2) if x is not None else "NA".
PctField(x) == IF x = None THEN NA ELSE round(x, 2)

\* fetch_one's CurrentPrice field: round(float(cur_price), 4), or "".
PriceField(x) == IF x = None THEN Blank ELSE round(x, 4)

-----------------------------------------------------------------------------
(* Frames: what the provider's history call returns.  A row carries its    *)
(* trading date (the index) and its cells; Volume stands for every column  *)
(* other than Close.                                                       *)

Row(d, c, v) == [date |-> d, vals |-> [Close |-> c, Volume |-> Num(v)]]

RowNoClose(d, v) == [date |-> d, vals |-> [Volume |-> Num(v)]]

Frame(cols, rs) == [columns |-> cols, rows |-> rs]

\* pd.DataFrame(): no columns, no rows.
EmptyDataFrame == Frame({}, <<>>)

\* DataFrame.empty: some axis has length 0.
Empty(frame) == Len(frame.rows) = 0 \/ frame.columns = {}

\* The function f on 1..n as a sequence value.
AsSeq(f) == SubSeq(f, 1, Len(f))

\* The place of row a in index order: after the rows dated earlier and after
\* the rows before it of its own date.
RankByDate(rs, a) ==
    Cardinality({b \in 1..Len(rs) :
        \/ rs[b].date < rs[a].date
        \/ rs[b].date = rs[a].date /\ b < a}) + 1

Place(rs, ranks) ==
    AsSeq([r \in 1..Len(rs) |-> rs[CHOOSE a \in 1..Len(rs) : ranks[a] = r]])

\* DataFrame.sort_index(): the rows in index order; rows of one date keep
\* their order.
sort_index(rs) == Place(rs, AsSeq([a \in 1..Len(rs) |-> RankByDate(rs, a)]))

RowsOf(marked) == AsSeq([a \in 1..Len(marked) |-> marked[a].row])

\* DataFrame.drop_duplicates(): a row whose cells all equal those of an
\* earlier row is dropped (keep="first"); the index takes no part, and NaN
\* cells count as equal.
drop_duplicates(rs) ==
    RowsOf(SelectSeq(
        AsSeq([a \in 1..Len(rs) |->
            [row |-> rs[a],
             first |-> \A b \in 1..(a - 1) : rs[b].vals # rs[a].vals]]),
        LAMBDA m : m.first))

\* safe_history, a successful attempt: the frame it returns.
Accept(frame) ==
    IF ~Empty(frame)
    THEN Frame(frame.columns, drop_duplicates(sort_index(frame.rows)))
    ELSE frame

\* A mistaken loop test: one attempt too many.
RetryLeft_one_more(n) == n <= RETRY_ATTEMPTS

\* safe_history's loop test.
RetryLeft(n) == n < RETRY_ATTEMPTS

\* fetch_one's test for taking the prices from the history.
HasCloses(frame) == ~Empty(frame) /\ "Close" \in frame.columns

\* hist["Close"].dropna().reset_index(drop=True), or the empty series.
CloseSeries(frame) ==
    IF HasCloses(frame)
    THEN SelectSeq(AsSeq([a \in 1..Len(frame.rows) |-> frame.rows[a].vals.Close]),
                   LAMBDA c : c.k # "nan")
    ELSE <<>>

\* float(close_series.iloc[-1]) if len(close_series) > 0 else None.
HistoryPrice(series) == IF Len(series) > 0 THEN series[Len(series)] ELSE None

\* A mistaken name lookup: a failed lookup yields an empty name.
get_company_name_blank(info, symbol) ==
    IF ~info.ok THEN ""
    ELSE IF info.shortName # "" THEN info.shortName
    ELSE IF info.longName # "" THEN info.longName
    ELSE symbol

\* get_company_name: info is the metadata lookup's outcome; a missing name is "".
get_company_name(info, symbol) ==
    IF ~info.ok THEN symbol
    ELSE IF info.shortName # "" THEN info.shortName
    ELSE IF info.longName # "" THEN info.longName
    ELSE symbol

\* The row fetch_one returns.
SummaryRow(sym, company, price, series) ==
    [Symbol        |-> sym,
     Company       |-> company,
     CurrentPrice  |-> PriceField(price),
     OneMonthPct   |-> PctField(pct_change_from_n_days(series, OFFSETS.OneMonth)),
     ThreeMonthPct |-> PctField(pct_change_from_n_days(series, OFFSETS.ThreeMonth)),
     SixMonthPct   |-> PctField(pct_change_from_n_days(series, OFFSETS.SixMonth)),
     OneYearPct    |-> PctField(pct_change_from_n_days(series, OFFSETS.OneYear))]

\* The row main appends when fetch_one raises.
FailureRow(sym) ==
    [Symbol        |-> sym,
     Company       |-> sym,
     CurrentPrice  |-> Blank,
     OneMonthPct   |-> NA,
     ThreeMonthPct |-> NA,
     SixMonthPct   |-> NA,
     OneYearPct    |-> NA]

\* A mistaken handler: the symbol that failed gets no row.
OnError_drop(rs, sym) == rs

\* main's except branch.
OnError(rs, sym) == Append(rs, FailureRow(sym))

\* The field of a row that holds window w's return.
PctOf(row, w) ==
    CASE w = "OneMonth"   -> row.OneMonthPct
      [] w = "ThreeMonth" -> row.ThreeMonthPct
      [] w = "SixMonth"   -> row.SixMonthPct
      [] w = "OneYear"    -> row.OneYearPct

-----------------------------------------------------------------------------
(* The ticker file *)

Lines == {"\n", "aapl\n", " MSFT \n"}

\* str.strip() on the lines of the model.
strip(l) ==
    CASE l = "\n"       -> ""
      [] l = "aapl\n"   -> "aapl"
      [] l = " MSFT \n" -> "MSFT"

\* str.upper() on the stripped lines of the model.
upper(s) ==
    CASE s = ""     -> ""
      [] s = "aapl" -> "AAPL"
      [] s = "MSFT" -> "MSFT"

\* [l.strip().upper() for l in f if l.strip()]
ReadTickers(file) ==
    LET kept == SelectSeq(file, LAMBDA l : strip(l) # "")
    IN  [a \in 1..Len(kept) |-> upper(strip(kept[a]))]

Symbols == {"AAPL", "MSFT"}

-----------------------------------------------------------------------------
(* Bounds and the inputs drawn within them *)

MaxLines == 2

MaxRows == 2

MaxLen == 4

MaxOffset == 4

SeqUpTo(S, n) == UNION {[1..m -> S] : m \in 0..n}

TickerFiles == SeqUpTo(Lines, MaxLines)

AllColumns == {"Close", "Volume"}

\* A history with its columns and no rows.
NoRows == Frame(AllColumns, <<>>)

\* Short histories: unsorted, repeated dates, repeated cells, missing closes.
SmallRows == {Row(d, c, v) : d \in {1, 2}, c \in {Frac(123456, 100000), NaN}, v \in {0, 1}}

SmallFrames == {Frame(AllColumns, rs) : rs \in SeqUpTo(SmallRows, MaxRows)}

NoCloseFrames == {Frame({"Volume"}, <<RowNoClose(1, 0)>>),
                  Frame({"Volume"}, <<RowNoClose(2, 1), RowNoClose(1, 0)>>)}

OffsetSet == {OFFSETS[w] : w \in Windows}

LongPrices == {Num(0), Num(32), Num(33)}

\* Histories long enough for a window: len trading days in order, the last
\* close a, the close at every window's look-back day b, 32 elsewhere; a flat
\* history repeats the same cells in the other columns day after day.
LongFrame(len, a, b, flat) ==
    Frame(AllColumns,
          AsSeq([d \in 1..len |->
              Row(d,
                  IF d = len THEN a ELSE IF (len - d) \in OffsetSet THEN b ELSE Num(32),
                  IF flat THEN 0 ELSE d)]))

LongLengths == OffsetSet \cup {n + 1 : n \in OffsetSet}

LongFrames == {LongFrame(len, a, b, flat) :
                  len \in LongLengths, a \in LongPrices, b \in LongPrices,
                  flat \in BOOLEAN}

RichFrames == {EmptyDataFrame, NoRows} \cup SmallFrames \cup NoCloseFrames \cup LongFrames

LeanFrames == {NoRows,
               Frame(AllColumns, <<Row(2, Frac(123456, 100000), 1), Row(1, NaN, 0)>>)}

\* What t.fast_info.get("lastPrice") may do: raise, return None, return a
\* price, or return a value float() rejects.
LastPriceOutcomes ==
    {[kind |-> "raised", value |-> None],
     [kind |-> "absent", value |-> None],
     [kind |-> "value",  value |-> Frac(123456, 100000)],
     [kind |-> "bad",    value |-> NonNumeric]}

\* What ticker_obj.info may do: raise, or return a mapping whose names may be
\* missing.
InfoOutcomes ==
    {[ok |-> FALSE, shortName |-> "", longName |-> ""]} \cup
    [ok : {TRUE}, shortName : {"", "Apple"}, longName : {"", "Apple Inc."}]

MetaKind(info) ==
    IF ~info.ok THEN "raised"
    ELSE IF info.shortName # "" THEN "short"
    ELSE IF info.longName # "" THEN "long"
    ELSE "none"

CalcValues == {Num(0), Num(32), Num(33), NaN, NonNumeric}

ExampleSeries == <<Num(100), Num(110), Num(90), Num(105), Num(120)>>

-----------------------------------------------------------------------------
(* The pipeline: main, fetch_one, safe_history *)

sym == tickers[pos]

Idle ==
    /\ attempt = 0
    /\ hist = EmptyDataFrame
    /\ close_series = <<>>
    /\ cur_price = None
    /\ calls = 0
    /\ accepted = FALSE
    /\ fallback = "notqueried"
    /\ meta = "notqueried"
    /\ raised = "no"

CalcIdle ==
    /\ c_series = <<>>
    /\ c_n = 0
    /\ c_pc = "idle"
    /\ c_result = None
    /\ c_field = NA

PipeStart ==
    /\ pos = 1
    /\ pc = "loop"
    /\ rows = <<>>
    /\ output = <<>>
    /\ Idle
    /\ CalcIdle

\* A run over a ticker file of up to MaxLines lines.
Init ==
    /\ \E file \in TickerFiles : tickers = ReadTickers(file)
    /\ market \in [Symbols -> LeanFrames]
    /\ PipeStart

\* A run over one symbol, over every history of the model.
InitFetch ==
    /\ tickers = ReadTickers(<<"aapl\n">>)
    /\ \E frame \in RichFrames : market = [s \in Symbols |-> frame]
    /\ PipeStart

\* main enters the loop body for the next symbol; yf.Ticker(sym) returns and
\* fetch_one calls safe_history.
TickerOk ==
    /\ pc = "loop"
    /\ pos <= Len(tickers)
    /\ pc' = "history"
    /\ attempt' = 0
    /\ hist' = EmptyDataFrame
    /\ close_series' = <<>>
    /\ cur_price' = None
    /\ calls' = 0
    /\ accepted' = FALSE
    /\ fallback' = "notqueried"
    /\ meta' = "notqueried"
    /\ raised' = "no"
    /\ UNCHANGED <<tickers, market, pos, rows, output>>
    /\ UNCHANGED calcVars

\* yf.Ticker(sym) raises: fetch_one raises and main appends the failure row.
TickerRaises ==
    /\ pc = "loop"
    /\ pos <= Len(tickers)
    /\ rows' = OnError(rows, sym)
    /\ pos' = pos + 1
    /\ attempt' = 0
    /\ hist' = EmptyDataFrame
    /\ close_series' = <<>>
    /\ cur_price' = None
    /\ calls' = 0
    /\ accepted' = FALSE
    /\ fallback' = "notqueried"
    /\ meta' = "notqueried"
    /\ raised' = "ticker"
    /\ UNCHANGED <<tickers, market, pc, output>>
    /\ UNCHANGED calcVars

\* safe_history: one attempt whose ticker.history call raises; the loop ends,
\* returning pd.DataFrame(), once the test fails.
HistoryRaises ==
    /\ pc = "history"
    /\ RetryLeft(attempt)
    /\ calls' = calls + 1
    /\ attempt' = attempt + 1
    /\ accepted' = FALSE
    /\ IF RetryLeft(attempt + 1)
       THEN /\ pc' = "history"
            /\ hist' = hist
       ELSE /\ pc' = "price"
            /\ hist' = EmptyDataFrame
    /\ UNCHANGED <<tickers, market, pos, close_series, cur_price, rows, output,
                   fallback, meta, raised>>
    /\ UNCHANGED calcVars

\* safe_history: one attempt whose ticker.history call returns.
HistoryReturns ==
    /\ pc = "history"
    /\ RetryLeft(attempt)
    /\ calls' = calls + 1
    /\ accepted' = TRUE
    /\ hist' = Accept(market[sym])
    /\ pc' = "price"
    /\ UNCHANGED <<tickers, market, pos, attempt, close_series, cur_price, rows,
                   output, fallback, meta, raised>>
    /\ UNCHANGED calcVars

\* fetch_one: the history has closes; the series and the price come from it.
PriceFromHistory ==
    /\ pc = "price"
    /\ HasCloses(hist)
    /\ close_series' = CloseSeries(hist)
    /\ cur_price' = HistoryPrice(CloseSeries(hist))
    /\ pc' = "row"
    /\ UNCHANGED <<tickers, market, pos, attempt, hist, rows, output, calls,
                   accepted, fallback, meta, raised>>
    /\ UNCHANGED calcVars

\* fetch_one: no closes in the history; the last-price lookup is queried.
PriceFromFallback ==
    /\ pc = "price"
    /\ ~HasCloses(hist)
    /\ \E o \in LastPriceOutcomes :
          /\ cur_price' = o.value
          /\ fallback' = o.kind
    /\ close_series' = CloseSeries(hist)
    /\ pc' = "row"
    /\ UNCHANGED <<tickers, market, pos, attempt, hist, rows, output, calls,
                   accepted, meta, raised>>
    /\ UNCHANGED calcVars

\* fetch_one: the four returns, the company name and the row; main appends
\* it, or the failure row when float(cur_price) raises.
BuildRow ==
    /\ pc = "row"
    /\ \E info \in InfoOutcomes :
          /\ meta' = MetaKind(info)
          /\ IF cur_price.k = "bad"
             THEN /\ rows' = OnError(rows, sym)
                  /\ raised' = "price"
             ELSE /\ rows' = Append(rows, SummaryRow(sym, get_company_name(info, sym),
                                                     cur_price, close_series))
                  /\ raised' = "no"
    /\ pos' = pos + 1
    /\ pc' = "loop"
    /\ UNCHANGED <<tickers, market, attempt, hist, close_series, cur_price, output,
                   calls, accepted, fallback>>
    /\ UNCHANGED calcVars

\* main: the loop is over; the rows are written to OUTPUT_CSV.
Write ==
    /\ pc = "loop"
    /\ pos > Len(tickers)
    /\ output' = rows
    /\ pc' = "done"
    /\ UNCHANGED <<tickers, market, pos, attempt, hist, close_series, cur_price,
                   rows, calls, accepted, fallback, meta, raised>>
    /\ UNCHANGED calcVars

Next ==
    \/ TickerOk
    \/ TickerRaises
    \/ HistoryRaises
    \/ HistoryReturns
    \/ PriceFromHistory
    \/ PriceFromFallback
    \/ BuildRow
    \/ Write

Spec == Init /\ [][Next]_vars

SpecFetch == InitFetch /\ [][Next]_vars

\* The run is one sequential program: a step that can be taken is taken.
FairSpec == Init /\ [][Next]_vars /\ WF_vars(Next)

-----------------------------------------------------------------------------
(* Calculator runs: one call of pct_change_from_n_days on a drawn series   *)
(* and offset, and the row field fetch_one makes of the result.            *)

InitCalc ==
    /\ c_series \in SeqUpTo(CalcValues, MaxLen) \cup {ExampleSeries}
    /\ c_n \in 0..MaxOffset
    /\ c_pc = "call"
    /\ c_result = None
    /\ c_field = NA
    /\ tickers = <<>>
    /\ market = [s \in Symbols |-> NoRows]
    /\ pos = 1
    /\ pc = "idle"
    /\ rows = <<>>
    /\ output = <<>>
    /\ Idle

Calc ==
    /\ c_pc = "call"
    /\ c_result' = pct_change_from_n_days(c_series, c_n)
    /\ c_field' = PctField(pct_change_from_n_days(c_series, c_n))
    /\ c_pc' = "done"
    /\ UNCHANGED <<c_series, c_n>>
    /\ UNCHANGED pipeVars

NextCalc == Calc

SpecCalc == InitCalc /\ [][NextCalc]_vars

-----------------------------------------------------------------------------
(* Properties *)

\* A row has just been appended and the values fetch_one worked with for it
\* are still in place.
Emitted == pc \in {"loop", "done"} /\ pos > 1 /\ Len(rows) = pos - 1

LastRow == rows[Len(rows)]

LastSym == tickers[pos - 1]

\* Every history attempt for the symbol raised.
HistoryFailed == raised # "ticker" /\ ~accepted /\ calls = RETRY_ATTEMPTS

\* field is x rounded to the given number of decimals: a number of that many
\* decimals at most half a unit of the last one away from x.
NearestTo(field, x, ndigits) ==
    /\ IsNum(field)
    /\ field.den = 10^ndigits
    /\ 2 * Abs(field.num * x.den - x.num * 10^ndigits) <= Abs(x.den)

\* C1 (row completeness): whatever fails, main appends exactly one row per
\* symbol: while the loop runs the rows are those of the symbols already
\* passed, in input order, and the rows written at the end are one per input
\* symbol, the a-th row carrying the a-th symbol.
C1_RowCompleteness ==
    /\ pc # "idle" =>
          /\ Len(rows) = pos - 1
          /\ pos <= Len(tickers) + 1
          /\ \A a \in 1..Len(rows) : rows[a].Symbol = tickers[a]
    /\ pc = "done" =>
          /\ Len(output) = Len(tickers)
          /\ \A a \in 1..Len(tickers) : output[a].Symbol = tickers[a]

\* C1's case: two different symbols, the first failed outright, the second
\* priced, both written.
C1_Witness ==
    /\ pc = "done"
    /\ Len(output) = 2
    /\ output[1].Symbol # output[2].Symbol
    /\ output[1] = FailureRow(tickers[1])
    /\ IsNum(output[2].CurrentPrice)

\* safe_history gave up: no attempt succeeded and fetch_one went on.
Exhausted ==
    \/ pc \in {"price", "row"} /\ ~accepted
    \/ Emitted /\ raised # "ticker" /\ ~accepted

C2_Counts ==
    /\ pc = "history" => calls = attempt /\ attempt < RETRY_ATTEMPTS
    /\ Exhausted => /\ calls = RETRY_ATTEMPTS
                    /\ hist = EmptyDataFrame
                    /\ close_series = <<>>

\* C2 (retry exhaustion): when every history call raises, safe_history makes
\* exactly RETRY_ATTEMPTS calls, then returns the empty frame instead of
\* raising; the retry loop always ends, and a row for that symbol follows.
C2_RetryExhaustion ==
    /\ []C2_Counts
    /\ (pc = "history") ~> (pc = "price")
    /\ \A p \in 1..MaxLines :
          (pos = p /\ pc = "price" /\ ~accepted)
              ~> (Len(rows) >= p /\ rows[p].Symbol = tickers[p])

\* C2's case: the history was given up after three calls and the row is there.
C2_Witness ==
    /\ Emitted
    /\ raised = "no"
    /\ ~accepted
    /\ calls = 3
    /\ LastRow.Symbol = LastSym

c_last_idx == Len(c_series) - 1

c_lookback_idx == c_last_idx - c_n

c_last == c_series[c_last_idx + 1]

c_earlier == c_series[c_lookback_idx + 1]

\* C3 (insufficient history): a series too short for the offset, the empty
\* one included, gives None and the field NA, never a number.
C3_InsufficientHistory ==
    (c_pc = "done" /\ c_lookback_idx < 0) => c_result = None /\ c_field = NA

\* C3's case: a series of usable prices that is too short for the offset.
C3_Witness ==
    /\ c_pc = "done"
    /\ Len(c_series) >= 2
    /\ c_lookback_idx < 0
    /\ \A a \in 1..Len(c_series) : IsNum(c_series[a]) /\ ~IsZero(c_series[a])
    /\ c_result = None

\* C4 (zero-divisor guard): a close of exactly 0 at the look-back index gives
\* None and the field NA: no infinity, no NaN.
C4_ZeroDivisorGuard ==
    (c_pc = "done" /\ c_lookback_idx >= 0 /\ IsZero(c_earlier))
        => c_result = None /\ c_field = NA

\* C4's case: a nonzero last close over a zero look-back close.
C4_Witness ==
    /\ c_pc = "done"
    /\ c_lookback_idx >= 0
    /\ IsZero(c_earlier)
    /\ IsNum(c_last)
    /\ ~IsZero(c_last)
    /\ c_field = NA

\* C5 (return value): with enough history and two prices, the look-back one
\* not 0, the field is (last - earlier) / earlier * 100 rounded to 2 decimals,
\* last being the last element and earlier the one n positions before it; the
\* series 100, 110, 90, 105, 120 with n = 2 gives 33.33.
C5_ReturnValue ==
    /\ (c_pc = "done" /\ c_lookback_idx >= 0 /\ IsNum(c_last) /\ IsNum(c_earlier)
            /\ ~IsZero(c_earlier))
          => NearestTo(c_field,
                       Frac((c_last.num * c_earlier.den - c_earlier.num * c_last.den) * 100,
                            c_earlier.num * c_last.den),
                       2)
    /\ (c_pc = "done" /\ c_series = ExampleSeries /\ c_n = 2) => c_field = Frac(3333, 100)

\* C5's case: the example series at offset 2.
C5_Witness ==
    /\ c_pc = "done"
    /\ c_series = ExampleSeries
    /\ c_n = 2
    /\ c_field = Frac(3333, 100)

\* C6 (current-price resolution), as claimed: a non-empty close series gives
\* its last close (to the 4 decimals of the field); an empty one, whatever
\* emptied it, has the last-price lookup queried, and CurrentPrice is blank
\* only if that lookup raised or returned nothing.
C6_CurrentPrice ==
    (Emitted /\ raised = "no") =>
        /\ Len(close_series) > 0 =>
              NearestTo(LastRow.CurrentPrice, close_series[Len(close_series)], 4)
        /\ Len(close_series) = 0 =>
              /\ fallback # "notqueried"
              /\ LastRow.CurrentPrice = Blank => fallback \in {"raised", "absent"}

AllUnavailable(row) ==
    /\ row.CurrentPrice = Blank
    /\ \A w \in Windows : PctOf(row, w) = NA

\* C7 (total symbol failure), as claimed: history and metadata both failed,
\* so the row has the symbol as Company and every numeric field unavailable.
C7_TotalFailure ==
    (Emitted /\ HistoryFailed /\ meta = "raised") =>
        LastRow.Company = LastSym /\ AllUnavailable(LastRow)

\* C7, amended: history and metadata both failed; the row has the symbol as
\* Company and the four returns NA; CurrentPrice is blank when the last-price
\* lookup raised or returned nothing (or fetch_one raised), and is the price
\* the lookup returned otherwise.  The loop stands at the next symbol.
C7_TotalFailureAmended ==
    /\ (Emitted /\ HistoryFailed /\ meta = "raised") =>
          /\ LastRow.Symbol = LastSym
          /\ LastRow.Company = LastSym
          /\ \A w \in Windows : PctOf(LastRow, w) = NA
          /\ (fallback \in {"raised", "absent"} \/ raised # "no")
                => LastRow.CurrentPrice = Blank
          /\ (fallback = "value" /\ raised = "no")
                => NearestTo(LastRow.CurrentPrice, cur_price, 4)
          /\ pos <= Len(tickers) => pc = "loop" /\ ENABLED TickerOk
    /\ (Emitted /\ raised # "no") => LastRow = FailureRow(LastSym)

\* C7's case: history, metadata and last-price lookup all failed for a symbol
\* that is not the last one.
C7_Witness ==
    /\ Emitted
    /\ HistoryFailed
    /\ meta = "raised"
    /\ fallback = "raised"
    /\ raised = "no"
    /\ pos <= Len(tickers)
    /\ AllUnavailable(LastRow)

\* Window w's return is unavailable for the close series of the last row.
Unavailable(w) ==
    LET lookback_idx == Len(close_series) - 1 - OFFSETS[w]
    IN  lookback_idx < 0 \/ IsZero(close_series[lookback_idx + 1])

ZeroChange(w) ==
    SameValue(close_series[Len(close_series)],
              close_series[Len(close_series) - OFFSETS[w]])

\* C8 (unavailable is never a number): in every row, each return field is NA
\* exactly when that window's return is unavailable and a number otherwise; a
\* zero change is the number 0, and the written rows are the rows.
C8_UnavailableNotNumber ==
    /\ Emitted =>
          \A w \in Windows :
              /\ PctOf(LastRow, w) = NA <=> Unavailable(w)
              /\ ~Unavailable(w) => IsNum(PctOf(LastRow, w))
              /\ (~Unavailable(w) /\ ZeroChange(w)) => PctOf(LastRow, w).num = 0
    /\ pc = "done" => output = rows

\* C8's case: one row with a zero one-month change and no three-month return.
C8_Witness ==
    /\ Emitted
    /\ raised = "no"
    /\ LastRow.OneMonthPct = Frac(0, 100)
    /\ LastRow.ThreeMonthPct = NA

Dates(rs) == {rs[a].date : a \in 1..Len(rs)}

\* C9 (accepted series), as claimed: a successful attempt returns at once,
\* and the frame it returns is in date order with one row per trading date
\* and a row for every trading date of the provider's frame.
C9_SortedDedupByDate ==
    (pc = "price" /\ accepted) =>
        /\ calls = attempt + 1
        /\ \A a \in 1..(Len(hist.rows) - 1) : hist.rows[a].date < hist.rows[a + 1].date
        /\ Dates(hist.rows) = Dates(market[sym].rows)

\* C10 (numeric edge cases), as claimed: an empty or too short series, a zero
\* at the look-back index, or a NaN or non-numeric value at the last or the
\* look-back index all give None, never NaN or infinity.
C10_EdgeCasesUnavailable ==
    c_pc = "done" =>
        /\ c_result.k \notin {"nan", "inf"}
        /\ (c_lookback_idx < 0 \/ IsZero(c_earlier) \/ ~IsNum(c_last) \/ ~IsNum(c_earlier))
              => c_result = None

=============================================================================
